---- MODULE Spec2Model ----
(***************************************************************************)
(* A model of src/common/util.ts: the path normaliser, the base resolver,  *)
(* the options resolver and the cookie helpers.                            *)
(*                                                                         *)
(* A string is a sequence of one-character strings.  A JavaScript value is *)
(* a record with a "type" field.  Every call is one step: pc goes from     *)
(* "idle" to "done", arg holds the call's inputs and ret its outcome.      *)
(***************************************************************************)
EXTENDS Integers, Sequences, FiniteSets, TLC

VARIABLES pc, op, arg, ret, location, document, loggerLevel, cookies, stored

vars == <<pc, op, arg, ret, location, document, loggerLevel, cookies, stored>>

(***************************************************************************)
(* Bounds of the model.                                                    *)
(***************************************************************************)
MaxUrlLen == 5
MaxPathLen == 4
MaxBaseLen == 3
MaxWordLen == 2
MaxCount == 3
MaxInitialCookies == 2
MaxCalls == 3

Chars == {"/", ".", "a", "b"}

StringsUpTo(n) == UNION {[1..k -> Chars] : k \in 0..n}

(***************************************************************************)
(* JavaScript values.                                                      *)
(***************************************************************************)
Undefined == [type |-> "undefined"]
Null == [type |-> "null"]
JSString(s) == [type |-> "string", str |-> s]
JSNumber(n) == [type |-> "number", num |-> n]
JSObject(props) == [type |-> "object", props |-> props]

Returned(v) == [kind |-> "return", value |-> v]
Thrown(e) == [kind |-> "throw", error |-> e]

(***************************************************************************)
(* String helpers: String.prototype.startsWith, split and Array.join.      *)
(***************************************************************************)
StartsWithSlash(s) == Len(s) > 0 /\ s[1] = "/"

RECURSIVE SplitFrom(_, _, _)
\* The segments of s from index i on, cur being the segment read so far.
SplitFrom(s, i, cur) ==
  IF i > Len(s) THEN <<cur>>
  ELSE IF s[i] = "/" THEN <<cur>> \o SplitFrom(s, i + 1, <<>>)
  ELSE SplitFrom(s, i + 1, Append(cur, s[i]))

SplitSlash(s) == SplitFrom(s, 1, <<>>)

RECURSIVE JoinSlash(_)
JoinSlash(parts) ==
  IF Len(parts) = 0 THEN <<>>
  ELSE IF Len(parts) = 1 THEN parts[1]
  ELSE parts[1] \o <<"/">> \o JoinSlash(Tail(parts))

(***************************************************************************)
(* plural (util.ts:22).                                                    *)
(***************************************************************************)
plural(count, str) == IF count = 1 THEN str ELSE str \o <<"s">>

(***************************************************************************)
(* normalize (util.ts:35-37): url.replace(/\/\/+/g, "/")                   *)
(*                               .replace(/\/+$/, keepTrailing ? "/" : "") *)
(***************************************************************************)
\* The last index of the run of "/" that starts at index i.
RunEnd(s, i) ==
  CHOOSE j \in i..Len(s) :
    /\ \A k \in i..j : s[k] = "/"
    /\ j = Len(s) \/ s[j + 1] # "/"

RECURSIVE CollapseFrom(_, _)
\* /\/\/+/g: every maximal run of two or more "/" is replaced by one "/".
CollapseFrom(s, i) ==
  IF i > Len(s) THEN <<>>
  ELSE IF s[i] = "/" /\ i < Len(s) /\ s[i + 1] = "/"
       THEN <<"/">> \o CollapseFrom(s, RunEnd(s, i) + 1)
       ELSE <<s[i]>> \o CollapseFrom(s, i + 1)

RECURSIVE CollapsePairsFrom(_, _)
\* What /\/\//g would do: every pair "//" is replaced by one "/".
CollapsePairsFrom(s, i) ==
  IF i > Len(s) THEN <<>>
  ELSE IF s[i] = "/" /\ i < Len(s) /\ s[i + 1] = "/"
       THEN <<"/">> \o CollapsePairsFrom(s, i + 2)
       ELSE <<s[i]>> \o CollapsePairsFrom(s, i + 1)

collapsePairs(s) == CollapsePairsFrom(s, 1)

collapseSlashes(s) == CollapseFrom(s, 1)

\* /\/+$/: the leftmost suffix made of one or more "/" is replaced by rep.
replaceTrailingSlashes(s, rep) ==
  IF Len(s) > 0 /\ s[Len(s)] = "/"
  THEN LET i == CHOOSE i \in 1..Len(s) :
                  /\ \A k \in i..Len(s) : s[k] = "/"
                  /\ i = 1 \/ s[i - 1] # "/"
       IN  SubSeq(s, 1, i - 1) \o rep
  ELSE s

\* What normalize did before it took keepTrailing: the trailing "/" always goes.
normalizeAlwaysStrip(url, keepTrailing) ==
  replaceTrailingSlashes(collapseSlashes(url), <<>>)

normalize(url, keepTrailing) ==
  replaceTrailingSlashes(collapseSlashes(url), IF keepTrailing THEN <<"/">> ELSE <<>>)

(***************************************************************************)
(* The URL parser's path state for an http(s) URL, as run by               *)
(* new URL(location.origin + "/" + ...).pathname (util.ts:57-58).          *)
(***************************************************************************)
\* "Shorten a URL's path": the last segment, if any, is removed.
ShortenPath(path) == IF Len(path) = 0 THEN path ELSE SubSeq(path, 1, Len(path) - 1)

RECURSIVE PathState(_, _, _)
\* segs are the buffers between the "/" of the input; the last one ends the input.
PathState(segs, i, path) ==
  IF i > Len(segs) THEN path
  ELSE LET buffer == segs[i]
           atEnd == i = Len(segs)
       IN  IF buffer = <<".", ".">>
           THEN PathState(segs, i + 1,
                  IF atEnd THEN Append(ShortenPath(path), <<>>) ELSE ShortenPath(path))
           ELSE IF buffer = <<".">>
           THEN PathState(segs, i + 1, IF atEnd THEN Append(path, <<>>) ELSE path)
           ELSE PathState(segs, i + 1, Append(path, buffer))

RECURSIVE SerializePath(_)
SerializePath(path) ==
  IF Len(path) = 0 THEN <<>>
  ELSE <<"/">> \o path[1] \o SerializePath(Tail(path))

\* rest is what follows the origin in the URL's text; it starts with "/".
URLPathname(rest) == SerializePath(PathState(SplitSlash(Tail(rest)), 1, <<>>))

(***************************************************************************)
(* resolveBase (util.ts:50-59).                                            *)
(***************************************************************************)
\* !base: undefined, null and the empty string are falsy.
IsFalsy(v) == v.type \in {"undefined", "null"} \/ (v.type = "string" /\ Len(v.str) = 0)

\* What parts.push(base) would do instead of parts[parts.length - 1] = base.
appendLastPart(parts, base) == Append(parts, base)

replaceLastPart(parts, base) == [parts EXCEPT ![Len(parts)] = base]

\* What resolveBase would do if it returned url.pathname without normalizing it.
resolveBaseUnnormalized(base) ==
  IF IsFalsy(base) \/ StartsWithSlash(base.str)
  THEN IF base.type = "string" THEN base.str ELSE <<>>
  ELSE URLPathname(<<"/">> \o
         JoinSlash(replaceLastPart(SplitSlash(location.pathname), base.str)))

resolveBase(base) ==
  IF IsFalsy(base) \/ StartsWithSlash(base.str)
  THEN IF base.type = "string" THEN base.str ELSE <<>>
  ELSE LET parts == replaceLastPart(SplitSlash(location.pathname), base.str)
           url == URLPathname(<<"/">> \o JoinSlash(parts))
       IN  normalize(url, FALSE)

(***************************************************************************)
(* The host environment.                                                   *)
(***************************************************************************)
\* A pathname the browser can report: it starts with "/" and holds no "."
\* or ".." segment, since the browser has resolved them.
IsPathname(p) ==
  /\ StartsWithSlash(p)
  /\ \A i \in 1..Len(SplitSlash(p)) : SplitSlash(p)[i] \notin {<<".">>, <<".", ".">>}

Pathnames == {p \in StringsUpTo(MaxPathLen) : IsPathname(p)}

NoDocument == [element |-> FALSE]

Idle ==
  /\ pc = "idle"
  /\ op = "none"
  /\ arg = <<>>
  /\ ret = <<>>
  /\ loggerLevel = Undefined

(***************************************************************************)
(* The string utilities: calls of normalize and plural.                    *)
(***************************************************************************)
InitStrings ==
  /\ Idle
  /\ location = [pathname |-> <<"/">>, search |-> <<>>]
  /\ document = NoDocument
  /\ cookies = <<>>
  /\ stored = <<>>

CallNormalize ==
  /\ pc = "idle"
  /\ \E url \in StringsUpTo(MaxUrlLen), keepTrailing \in BOOLEAN :
       /\ arg' = [url |-> url, keepTrailing |-> keepTrailing]
       /\ ret' = normalize(url, keepTrailing)
  /\ pc' = "done"
  /\ op' = "normalize"
  /\ UNCHANGED <<location, document, loggerLevel, cookies, stored>>

\* The caller passes the result of normalize to normalize again.
CallNormalizeAgain ==
  /\ pc = "done"
  /\ op = "normalize"
  /\ arg' = [url |-> ret, keepTrailing |-> arg.keepTrailing, first |-> arg.url]
  /\ ret' = normalize(ret, arg.keepTrailing)
  /\ pc' = "again"
  /\ UNCHANGED <<op, location, document, loggerLevel, cookies, stored>>

CallPlural ==
  /\ pc = "idle"
  /\ \E count \in (0 - 1)..MaxCount, str \in StringsUpTo(MaxWordLen) :
       /\ arg' = [count |-> count, str |-> str]
       /\ ret' = plural(count, str)
  /\ pc' = "done"
  /\ op' = "plural"
  /\ UNCHANGED <<location, document, loggerLevel, cookies, stored>>

NextStrings == CallNormalize \/ CallNormalizeAgain \/ CallPlural

SpecStrings == InitStrings /\ [][NextStrings]_vars

(***************************************************************************)
(* The base resolver: a call of resolveBase at some location.              *)
(***************************************************************************)
InitResolve ==
  /\ Idle
  /\ \E p \in Pathnames : location = [pathname |-> p, search |-> <<>>]
  /\ document = NoDocument
  /\ cookies = <<>>
  /\ stored = <<>>

CallResolveBase ==
  /\ pc = "idle"
  /\ \E base \in {Undefined} \cup {JSString(b) : b \in StringsUpTo(MaxBaseLen)} :
       /\ arg' = [base |-> base]
       /\ ret' = resolveBase(base)
  /\ pc' = "done"
  /\ op' = "resolveBase"
  /\ UNCHANGED <<location, document, loggerLevel, cookies, stored>>

NextResolve == CallResolveBase

SpecResolve == InitResolve /\ [][NextResolve]_vars

(***************************************************************************)
(* Shapes of strings the properties speak of.                              *)
(***************************************************************************)
NoDoubleSlash(s) == \A i \in 1..(Len(s) - 1) : ~(s[i] = "/" /\ s[i + 1] = "/")

EndsWithSlash(s) == Len(s) > 0 /\ s[Len(s)] = "/"

\* Empty, or exactly one leading "/", no "//" inside and no trailing "/".
WellShaped(s) == s = <<>> \/ (StartsWithSlash(s) /\ NoDoubleSlash(s) /\ ~EndsWithSlash(s))

RECURSIVE Squeezed(_)
\* s with every "/" that follows a "/" left out.
Squeezed(s) ==
  IF Len(s) <= 1 THEN s
  ELSE IF s[1] = "/" /\ s[2] = "/" THEN Squeezed(Tail(s))
  ELSE <<s[1]>> \o Squeezed(Tail(s))

\* The longest prefix of s that does not end in "/".
WithoutTrailingSlashes(s) ==
  LET ends == {i \in 0..Len(s) : i = 0 \/ s[i] # "/"}
      m == CHOOSE i \in ends : \A j \in ends : j <= i
  IN  SubSeq(s, 1, m)

NormalizedAsDescribed(path, keepTrailing) ==
  IF keepTrailing /\ EndsWithSlash(path)
  THEN WithoutTrailingSlashes(Squeezed(path)) \o <<"/">>
  ELSE WithoutTrailingSlashes(Squeezed(path))

(***************************************************************************)
(* Properties of normalize and plural, under SpecStrings.                  *)
(***************************************************************************)
\* C6: normalize is idempotent: normalizing the result of normalize(s, k)
\* again with the same k returns that result.
C6_NormalizeIdempotent ==
  (op = "normalize" /\ pc = "again") => ret = arg.url

\* C6 witness: a url with a run of slashes and a trailing slash was normalized twice.
C6_Witness ==
  /\ op = "normalize" /\ pc = "again"
  /\ arg.first = <<"a", "/", "/", "/", "b">>
  /\ ret = <<"a", "/", "b">>

\* C7: normalize returns the path with every run of "/" collapsed to one "/",
\* then with all trailing "/" removed when keepTrailing is false, with exactly
\* one trailing "/" when keepTrailing is true and the input ended in "/", and
\* with none added otherwise; the result never contains "//".
C7_NormalizeContract ==
  op = "normalize" =>
    /\ ret = NormalizedAsDescribed(arg.url, arg.keepTrailing)
    /\ NoDoubleSlash(ret)
    /\ ~arg.keepTrailing => ~EndsWithSlash(ret)
    /\ arg.keepTrailing => (EndsWithSlash(ret) <=> EndsWithSlash(arg.url))

\* C7 witness: "a//b/" normalized with keepTrailing gives "a/b/".
C7_Witness ==
  /\ op = "normalize" /\ pc = "done"
  /\ arg.url = <<"a", "/", "/", "b", "/">>
  /\ arg.keepTrailing
  /\ ret = <<"a", "/", "b", "/">>

\* C10: plural appends an "s" to str if count is greater than one; for a
\* count of one, zero or a negative count the string is returned unchanged.
C10_PluralOnlyAboveOne ==
  op = "plural" =>
    ret = (IF arg.count > 1 THEN arg.str \o <<"s">> ELSE arg.str)

(***************************************************************************)
(* Properties of resolveBase, under SpecResolve.                           *)
(***************************************************************************)
IsAbsolute(base) == base.type = "string" /\ StartsWithSlash(base.str)

IsRelative(base) == base.type = "string" /\ base.str # <<>> /\ ~StartsWithSlash(base.str)

\* The location's path up to and including its last "/".
DirectoryOf(path) ==
  LET last == CHOOSE i \in 1..Len(path) :
                path[i] = "/" /\ \A j \in (i + 1)..Len(path) : path[j] # "/"
  IN  SubSeq(path, 1, last)

RECURSIVE WithoutDotSegments(_, _)
\* The segments segs with every "." left out and every ".." taking the
\* segment before it with it, kept being the segments kept so far.
WithoutDotSegments(segs, kept) ==
  IF Len(segs) = 0 THEN kept
  ELSE IF Head(segs) = <<".">> THEN WithoutDotSegments(Tail(segs), kept)
  ELSE IF Head(segs) = <<".", ".">>
       THEN WithoutDotSegments(Tail(segs),
              IF Len(kept) = 0 THEN kept ELSE SubSeq(kept, 1, Len(kept) - 1))
  ELSE WithoutDotSegments(Tail(segs), Append(kept, Head(segs)))

\* The last segment of the location's path replaced by base, "." and ".."
\* resolved, and the result normalized without a trailing slash.
ResolvedAsDescribed(path, base) ==
  LET joined == DirectoryOf(path) \o base
      segs == WithoutDotSegments(SplitSlash(Tail(joined)), <<>>)
  IN  NormalizedAsDescribed(<<"/">> \o JoinSlash(segs), FALSE)

C8_ResolveBaseContract ==
  op = "resolveBase" =>
    /\ arg.base = Undefined => ret = <<>>
    /\ (arg.base.type = "string" /\ ~IsRelative(arg.base)) => ret = arg.base.str
    /\ IsRelative(arg.base) => ret = ResolvedAsDescribed(location.pathname, arg.base.str)

\* C8 witness: base "ba" at location path "/a/b" resolves to "/a/ba".
C8_Witness ==
  /\ op = "resolveBase" /\ pc = "done"
  /\ location.pathname = <<"/", "a", "/", "b">>
  /\ arg.base = JSString(<<"b", "a">>)
  /\ ret = <<"/", "a", "/", "b", "a">>

(***************************************************************************)
(* JSON.parse (util.ts:67, 77).  A text is a sequence of tokens; a value   *)
(* is null, a number, a string or an object whose members are primitive.   *)
(***************************************************************************)
Punct(c) == [tok |-> c]
KeyToken(name) == [tok |-> "key", name |-> name]
StringToken(s) == [tok |-> "string", str |-> s]
NumberToken(n) == [tok |-> "number", num |-> n]
NullToken == [tok |-> "null"]

IsPrimitiveToken(t) == t.tok \in {"string", "number", "null"}

PrimitiveOf(t) ==
  IF t.tok = "string" THEN JSString(t.str)
  ELSE IF t.tok = "number" THEN JSNumber(t.num)
  ELSE Null

NoProps == [k \in {} |-> Null]

\* props with the member name: value added, replacing an earlier one.
WithMember(props, name, value) ==
  [k \in DOMAIN props \cup {name} |-> IF k = name THEN value ELSE props[k]]

RECURSIVE ParseMembers(_, _, _)
\* The members of an object from token i on: name ":" value, then "," and
\* more members, or the closing brace as the last token.
ParseMembers(text, i, props) ==
  IF /\ i + 3 <= Len(text)
     /\ text[i].tok = "key"
     /\ text[i + 1].tok = ":"
     /\ IsPrimitiveToken(text[i + 2])
  THEN LET added == WithMember(props, text[i].name, PrimitiveOf(text[i + 2]))
       IN  IF text[i + 3].tok = "}" /\ i + 3 = Len(text)
           THEN Returned(JSObject(added))
           ELSE IF text[i + 3].tok = "," THEN ParseMembers(text, i + 4, added)
           ELSE Thrown("SyntaxError")
  ELSE Thrown("SyntaxError")

JSONParseText(text) ==
  IF Len(text) = 0 THEN Thrown("SyntaxError")
  ELSE IF Len(text) = 1
       THEN IF IsPrimitiveToken(text[1]) THEN Returned(PrimitiveOf(text[1]))
            ELSE Thrown("SyntaxError")
  ELSE IF text[1].tok # "{" THEN Thrown("SyntaxError")
  ELSE IF Len(text) = 2
       THEN IF text[2].tok = "}" THEN Returned(JSObject(NoProps))
            ELSE Thrown("SyntaxError")
  ELSE ParseMembers(text, 2, NoProps)

\* JSON.parse turns its argument into a string first: null becomes "null".
JSONParse(v) ==
  IF v.type = "null" THEN JSONParseText(<<NullToken>>) ELSE JSONParseText(v.str)

(***************************************************************************)
(* getOptions (util.ts:64-89).                                             *)
(***************************************************************************)
\* document.getElementById("coder-options")!.getAttribute("data-settings")!
\* inside the try block: no element is a TypeError, no attribute is null.
embeddedSettings ==
  IF ~document.element THEN Thrown("TypeError")
  ELSE IF ~document.hasAttribute THEN Returned(Null)
  ELSE Returned(JSString(document.settings))

\* Lines 66-70: a failure of the lookup or of the decoding leaves {}.
embeddedOptions ==
  IF embeddedSettings.kind = "throw" THEN JSObject(NoProps)
  ELSE LET parsed == JSONParse(embeddedSettings.value)
       IN  IF parsed.kind = "throw" THEN JSObject(NoProps) ELSE parsed.value

RECURSIVE FirstParam(_, _)
\* URLSearchParams.get: the value of the first parameter of that name, or null.
FirstParam(search, name) ==
  IF Len(search) = 0 THEN Null
  ELSE IF Head(search).name = name THEN JSString(Head(search).value)
  ELSE FirstParam(Tail(search), name)

queryOpts == FirstParam(location.search, "options")

\* The own properties an object spread copies: none of null or of a number.
Spread(v) == IF v.type = "object" THEN v.props ELSE NoProps

\* What { ...JSON.parse(queryOpts), ...options } would give.
spreadMergeEmbeddedFirst(under, over) ==
  [k \in DOMAIN under \cup DOMAIN over |->
     IF k \in DOMAIN under THEN under[k] ELSE over[k]]

\* { ...under, ...over }
spreadMerge(under, over) ==
  [k \in DOMAIN under \cup DOMAIN over |->
     IF k \in DOMAIN over THEN over[k] ELSE under[k]]

\* What lines 74-79 would do with the decoding wrapped in a try block.
queryOverrideSwallowing(options) ==
  IF IsFalsy(queryOpts) THEN Returned(options)
  ELSE LET parsed == JSONParse(queryOpts)
       IN  IF parsed.kind = "throw" THEN Returned(options)
           ELSE Returned(JSObject(spreadMerge(Spread(options), Spread(parsed.value))))

\* Lines 72-79: a null or empty parameter is skipped, any other is decoded
\* and spread over the options; a decoding error is not caught.
queryOverride(options) ==
  IF IsFalsy(queryOpts) THEN Returned(options)
  ELSE LET parsed == JSONParse(queryOpts)
       IN  IF parsed.kind = "throw" THEN parsed
           ELSE Returned(JSObject(spreadMerge(Spread(options), Spread(parsed.value))))

\* options.name: reading a property of null throws, a number has none.
Property(options, name) ==
  IF options.type = "object" /\ name \in DOMAIN options.props
  THEN options.props[name]
  ELSE Undefined

\* Lines 81-88.  The module is strict code: reading a property of null and
\* creating a property on a number both throw a TypeError.
resolveOptions(options) ==
  IF options.type = "null"
  THEN [outcome |-> Thrown("TypeError"), level |-> loggerLevel]
  ELSE IF options.type # "object"
  THEN [outcome |-> Thrown("TypeError"), level |-> Property(options, "logLevel")]
  ELSE [outcome |-> Returned(JSObject(
          WithMember(
            WithMember(options.props, "base",
                       JSString(resolveBase(Property(options, "base")))),
            "csStaticBase",
            JSString(resolveBase(Property(options, "csStaticBase")))))),
        level |-> Property(options, "logLevel")]

getOptions ==
  LET merged == queryOverride(embeddedOptions)
  IN  IF merged.kind = "throw"
      THEN [outcome |-> merged, level |-> loggerLevel]
      ELSE resolveOptions(merged.value)

(***************************************************************************)
(* The options resolver: a call of getOptions in some document at some     *)
(* location.  The texts are what a server can embed or a link can carry.   *)
(***************************************************************************)
OptionKeys == <<"base", "csStaticBase", "logLevel">>

OptionStrings ==
  {<<>>, <<"/", "a">>, <<"/", "a", "/">>, <<"b">>, <<".", ".", "/", "b">>}

OptionLevels == {1, 2}

OptionValues(name) ==
  IF name = "logLevel" THEN {JSNumber(n) : n \in OptionLevels}
  ELSE {JSString(str) : str \in OptionStrings}

ConfigObjects ==
  UNION {{props \in [D -> UNION {OptionValues(OptionKeys[i]) : i \in 1..Len(OptionKeys)}] :
            \A name \in D : props[name] \in OptionValues(name)} :
         D \in SUBSET {OptionKeys[i] : i \in 1..Len(OptionKeys)}}

TokenOf(value) ==
  IF value.type = "string" THEN StringToken(value.str)
  ELSE IF value.type = "number" THEN NumberToken(value.num)
  ELSE NullToken

RECURSIVE MembersText(_, _, _)
\* The members of props in the order of OptionKeys, from key i on.
MembersText(props, i, first) ==
  IF i > Len(OptionKeys) THEN <<>>
  ELSE IF OptionKeys[i] \in DOMAIN props
       THEN (IF first THEN <<>> ELSE <<Punct(",")>>)
            \o <<KeyToken(OptionKeys[i]), Punct(":"), TokenOf(props[OptionKeys[i]])>>
            \o MembersText(props, i + 1, FALSE)
       ELSE MembersText(props, i + 1, first)

\* JSON.stringify of a configuration object.
JSONText(props) == <<Punct("{")>> \o MembersText(props, 1, TRUE) \o <<Punct("}")>>

\* Texts that are not JSON: the empty text, an unclosed object, a trailing comma.
MalformedTexts ==
  { <<>>,
    <<Punct("{")>>,
    <<Punct("{"), KeyToken("base"), Punct(":"), StringToken(<<"/", "a">>)>>,
    <<Punct("{"), KeyToken("logLevel"), Punct(":"), NumberToken(2), Punct(","), Punct("}")>> }

\* Texts that are JSON for a value that is no object.
PrimitiveTexts == {<<NullToken>>, <<NumberToken(2)>>}

ObjectTexts == {JSONText(props) : props \in ConfigObjects}

Texts == ObjectTexts \cup MalformedTexts \cup PrimitiveTexts

Documents ==
  {NoDocument, [element |-> TRUE, hasAttribute |-> FALSE]}
    \cup {[element |-> TRUE, hasAttribute |-> TRUE, settings |-> text] : text \in Texts}

Searches ==
  {<<>>, <<[name |-> "folder", value |-> <<>>]>>}
    \cup {<<[name |-> "options", value |-> text]>> : text \in Texts}

OptionPathnames == {<<"/">>, <<"/", "a", "/", "b">>}

InitOptions ==
  /\ Idle
  /\ \E p \in OptionPathnames, search \in Searches :
       location = [pathname |-> p, search |-> search]
  /\ document \in Documents
  /\ cookies = <<>>
  /\ stored = <<>>

CallGetOptions ==
  /\ pc = "idle"
  /\ pc' = "done"
  /\ op' = "getOptions"
  /\ arg' = <<>>
  /\ ret' = getOptions.outcome
  /\ loggerLevel' = getOptions.level
  /\ UNCHANGED <<location, document, cookies, stored>>

NextOptions == CallGetOptions

SpecOptions == InitOptions /\ [][NextOptions]_vars

(***************************************************************************)
(* Properties of getOptions, under SpecOptions.                            *)
(***************************************************************************)
BaseAsDescribed(path, base) ==
  IF base = Undefined THEN <<>>
  ELSE IF ~IsRelative(base) THEN base.str
  ELSE ResolvedAsDescribed(path, base.str)

HasOptionsParam == \E i \in 1..Len(location.search) : location.search[i].name = "options"

\* C2: with no options query parameter getOptions returns a configuration
\* without raising, whatever the state of the embedded source: element
\* absent, attribute absent, invalid JSON, or JSON for null or a non-object.
C2_EmbeddedNeverRaises ==
  (op = "getOptions" /\ ~HasOptionsParam) => ret.kind = "return"

\* C3 as stated: whenever the options parameter holds a value that does not
\* decode, the empty value included, getOptions raises a decoding error.
C3_UndecodableAlwaysRaises ==
  (op = "getOptions" /\ HasOptionsParam /\ queryOpts.str \in MalformedTexts)
    => ret = Thrown("SyntaxError")

\* C3 as amended: whenever the options parameter holds a non-empty value that
\* does not decode, getOptions raises a decoding error instead of returning a
\* configuration; an empty value is treated as no parameter, with no error
\* of decoding.
C3_NonEmptyUndecodableRaises ==
  (op = "getOptions" /\ HasOptionsParam /\ queryOpts.str \in MalformedTexts) =>
    /\ Len(queryOpts.str) > 0 => ret = Thrown("SyntaxError")
    /\ Len(queryOpts.str) = 0 => ret # Thrown("SyntaxError")

\* C3 witness: an unclosed object in the query, over a sound embedded source.
C3_Witness ==
  /\ op = "getOptions" /\ pc = "done"
  /\ document.element /\ document.hasAttribute
  /\ document.settings = JSONText([base |-> JSString(<<"/", "a">>)])
  /\ queryOpts = JSString(<<Punct("{")>>)
  /\ ret = Thrown("SyntaxError")

BothDecodeToObjects ==
  /\ document.element /\ document.hasAttribute
  /\ document.settings \in ObjectTexts
  /\ HasOptionsParam /\ queryOpts.str \in ObjectTexts

\* C4: when the embedded source and the options parameter both decode to
\* configuration objects, the result holds for every field the query value
\* if the query has the field and the embedded value otherwise, base and
\* csStaticBase being replaced by the resolution of that merged value.
C4_QueryOverEmbedded ==
  (op = "getOptions" /\ BothDecodeToObjects) =>
    LET embedded == CHOOSE e \in ConfigObjects : JSONText(e) = document.settings
        query == CHOOSE q \in ConfigObjects : JSONText(q) = queryOpts.str
        raw(k) == IF k \in DOMAIN query THEN query[k]
                  ELSE IF k \in DOMAIN embedded THEN embedded[k]
                  ELSE Undefined
    IN  /\ ret.kind = "return"
        /\ ret.value.type = "object"
        /\ DOMAIN ret.value.props =
             DOMAIN embedded \cup DOMAIN query \cup {"base", "csStaticBase"}
        /\ \A k \in DOMAIN ret.value.props :
             ret.value.props[k] =
               IF k \in {"base", "csStaticBase"}
               THEN JSString(BaseAsDescribed(location.pathname, raw(k)))
               ELSE raw(k)

\* C4 witness: embedded {base: "/a", logLevel: 1} under query {logLevel: 2}.
C4_Witness ==
  /\ op = "getOptions" /\ pc = "done"
  /\ document.element /\ document.hasAttribute
  /\ document.settings = JSONText([base |-> JSString(<<"/", "a">>), logLevel |-> JSNumber(1)])
  /\ queryOpts = JSString(JSONText([logLevel |-> JSNumber(2)]))
  /\ ret = Returned(JSObject([base |-> JSString(<<"/", "a">>),
                              csStaticBase |-> JSString(<<>>),
                              logLevel |-> JSNumber(2)]))

(***************************************************************************)
(* The cookie helpers (util.ts:125-158).                                   *)
(***************************************************************************)
CookieNames == {"a", "b"}

CookieValues == {"1", "2"}

\* A Cookie (util.ts:125-137); the helpers read its name only.
Cookie(name, value) ==
  [name |-> name, value |-> value, domain |-> "localhost", path |-> "/",
   expires |-> 0 - 1, httpOnly |-> FALSE, secure |-> FALSE, sameSite |-> "Lax"]

Cookies == {Cookie(name, value) : name \in CookieNames, value \in CookieValues}

\* What checkForCookie would do if it compared the cookie's value with key.
checkForCookieByValue(cookieList, key) ==
  \E i \in 1..Len(cookieList) : cookieList[i].value = key

checkForCookie(cookieList, key) ==
  \E i \in 1..Len(cookieList) : cookieList[i].name = key

\* What an insertion that refreshes the record of an existing name would do.
createCookieOrReplace(cookieList, cookieToStore) ==
  IF ~checkForCookie(cookieList, cookieToStore.name)
  THEN cookieList \o <<cookieToStore>>
  ELSE [i \in 1..Len(cookieList) |->
          IF cookieList[i].name = cookieToStore.name THEN cookieToStore ELSE cookieList[i]]

createCookieIfDoesntExist(cookieList, cookieToStore) ==
  IF ~checkForCookie(cookieList, cookieToStore.name)
  THEN cookieList \o <<cookieToStore>>
  ELSE cookieList

\* The array passed in after the call: neither branch writes to it, the
\* spread [...cookies, cookieToStore] builds a new array.
inputAfterCall(cookieList, cookieToStore) == cookieList

CookieLists(n) == UNION {[1..k -> Cookies] : k \in 0..n}

\* stored is the history of the caller: every collection it has held and
\* every candidate it has passed, in order.
InitCookies ==
  /\ Idle
  /\ location = [pathname |-> <<"/">>, search |-> <<>>]
  /\ document = NoDocument
  /\ cookies \in CookieLists(MaxInitialCookies)
  /\ stored = [collections |-> <<cookies>>, candidates |-> <<>>]

\* The caller passes the collection it holds and keeps what is returned.
CallCreateCookieIfDoesntExist ==
  /\ Len(stored.candidates) < MaxCalls
  /\ \E cookieToStore \in Cookies :
       /\ arg' = [cookies |-> cookies, cookieToStore |-> cookieToStore]
       /\ ret' = [value |-> createCookieIfDoesntExist(cookies, cookieToStore),
                  input |-> inputAfterCall(cookies, cookieToStore)]
       /\ cookies' = createCookieIfDoesntExist(cookies, cookieToStore)
       /\ stored' = [collections |-> Append(stored.collections, cookies'),
                     candidates |-> Append(stored.candidates, cookieToStore)]
  /\ op' = "createCookieIfDoesntExist"
  /\ UNCHANGED <<pc, location, document, loggerLevel>>

NextCookies == CallCreateCookieIfDoesntExist

SpecCookies == InitCookies /\ [][NextCookies]_vars

(***************************************************************************)
(* Properties of the cookie helpers, under SpecCookies.                    *)
(***************************************************************************)
HasName(list, name) == \E i \in 1..Len(list) : list[i].name = name

DistinctNames(list) ==
  \A i, j \in 1..Len(list) : list[i].name = list[j].name => i = j

IsPrefix(short, long) ==
  Len(short) <= Len(long) /\ \A i \in 1..Len(short) : short[i] = long[i]

\* The first record of list under name.
FirstNamed(list, name) ==
  list[CHOOSE i \in 1..Len(list) :
         list[i].name = name /\ \A j \in 1..(i - 1) : list[j].name # name]

\* C5: createCookieIfDoesntExist returns the input collection unchanged when
\* some record has the candidate's name, and otherwise the input with the
\* candidate appended as the last element; the input itself is not modified.
C5_UpsertIfAbsent ==
  op = "createCookieIfDoesntExist" =>
    /\ HasName(arg.cookies, arg.cookieToStore.name) => ret.value = arg.cookies
    /\ ~HasName(arg.cookies, arg.cookieToStore.name) =>
         /\ Len(ret.value) = Len(arg.cookies) + 1
         /\ ret.value[Len(ret.value)] = arg.cookieToStore
         /\ IsPrefix(arg.cookies, ret.value)
    /\ ret.input = arg.cookies

\* C5 witness: [{a, "1"}] with the candidate {a, "2"} is returned as it is.
C5_Witness ==
  /\ op = "createCookieIfDoesntExist"
  /\ arg.cookies = <<Cookie("a", "1")>>
  /\ arg.cookieToStore = Cookie("a", "2")
  /\ ret.value = <<Cookie("a", "1")>>

\* C9: starting from a collection of pairwise distinct names, after any
\* sequence of calls, each on the result of the one before, no two records
\* share a name, every earlier collection is a prefix of every later one,
\* and the record held for a name is the first one inserted under it.
C9_FirstWriteWins ==
  DistinctNames(stored.collections[1]) =>
    /\ DistinctNames(cookies)
    /\ \A i, j \in 1..Len(stored.collections) :
         i <= j => IsPrefix(stored.collections[i], stored.collections[j])
    /\ cookies = stored.collections[Len(stored.collections)]
    /\ \A k \in 1..Len(stored.candidates) : HasName(cookies, stored.candidates[k].name)
    /\ \A i \in 1..Len(cookies) :
         cookies[i] = FirstNamed(stored.collections[1] \o stored.candidates, cookies[i].name)

\* C9 witness: from the empty collection, {a, "1"}, {b, "2"} and then
\* {a, "2"} leave {a, "1"}, {b, "2"}.
C9_Witness ==
  /\ stored.collections[1] = <<>>
  /\ stored.candidates = <<Cookie("a", "1"), Cookie("b", "2"), Cookie("a", "2")>>
  /\ cookies = <<Cookie("a", "1"), Cookie("b", "2")>>

====
